---------------------------- MODULE Spec2Model ----------------------------
(***************************************************************************)
(* A model of the nginx configuration parser                               *)
(* (letsencrypt/client/plugins/nginx/parser.py) and of the apacheconfig    *)
(* node classes (certbot_apache/_internal/apacheparser.py).                *)
(*                                                                         *)
(* Strings are sequences of one-character strings, so that startswith,     *)
(* slicing, case mapping and regular-expression matching are computed      *)
(* character by character, as the code and the Augeas library do.          *)
(***************************************************************************)
EXTENDS Integers, Sequences, FiniteSets

VARIABLES
    glob,       \* fnmatch_to_re: its argument clean_fn_match
    subject,    \* a node label the emitted regex is matched against
    regex,      \* fnmatch_to_re: the returned regex
    matched,    \* whether Augeas' label()=~regexp(regex) accepts subject
    ppc,        \* "input" before fnmatch_to_re ran, "done" after
    fs,         \* the files on disk: path -> [status, content]
    parsed,     \* NginxParser.parsed: path -> parsed tree, or NotRegistered
    plast,      \* the last NodeStore call: its arguments and what it returned
    fsEdits,    \* how many times the disk changed under the parser
    aug,        \* self.aug: the Augeas tree, path -> [exists, kids]
    log,        \* the mutation calls made so far, each with the tree before it
    nodes,      \* the apacheconfig node objects, by identity (1, 2, ...)
    nlast,      \* the last node-model call: its receiver and what it returned
    stack,      \* find_dir: the frames of the calls in progress, outermost first
    fdstatus,   \* find_dir: "idle", "running", or the exception that ended it
    fdcall,     \* find_dir: the arguments of the call in progress
    fdprev,     \* the find_dir call that returned before the last one
    fdlast      \* the last find_dir call that returned: arguments and result

pureVars == <<glob, subject, regex, matched, ppc>>
parseVars == <<fs, parsed, plast, fsEdits>>
mutVars == <<aug, log>>
nodeVars == <<nodes, nlast>>
findVars == <<stack, fdstatus, fdcall, fdprev, fdlast>>

vars == <<glob, subject, regex, matched, ppc, fs, parsed, plast, fsEdits,
          aug, log, nodes, nlast, stack, fdstatus, fdcall, fdprev, fdlast>>

-----------------------------------------------------------------------------
(* Bounds of the model *)

MaxGlobLen == 3
MaxSubjLen == 3
MaxFsEdits == 1
MaxOps == 3
MaxNodes == 4
MaxDepth == 4

-----------------------------------------------------------------------------
(* Characters and strings *)

LowerAlpha ==
    <<"a","b","c","d","e","f","g","h","i","j","k","l","m",
      "n","o","p","q","r","s","t","u","v","w","x","y","z">>

UpperAlpha ==
    <<"A","B","C","D","E","F","G","H","I","J","K","L","M",
      "N","O","P","Q","R","S","T","U","V","W","X","Y","Z">>

Digits == {"0","1","2","3","4","5","6","7","8","9"}

IsLower(c) == \E i \in DOMAIN LowerAlpha : LowerAlpha[i] = c
IsUpper(c) == \E i \in DOMAIN UpperAlpha : UpperAlpha[i] = c

\* str.isalpha() on one character
IsAlpha(c) == IsLower(c) \/ IsUpper(c)

\* str.upper() on one character
Upper(c) ==
    IF IsLower(c)
    THEN UpperAlpha[CHOOSE i \in DOMAIN LowerAlpha : LowerAlpha[i] = c]
    ELSE c

\* str.lower() on one character
Lower(c) ==
    IF IsUpper(c)
    THEN LowerAlpha[CHOOSE i \in DOMAIN UpperAlpha : UpperAlpha[i] = c]
    ELSE c

LowerStr(s) == [i \in DOMAIN s |-> Lower(s[i])]

SeqsUpTo(S, n) == UNION {[1..k -> S] : k \in 0..n}

\* str.startswith
StartsWith(s, p) ==
    /\ Len(p) <= Len(s)
    /\ \A i \in 1..Len(p) : s[i] = p[i]

\* s[k:] with k counted from 0, as Python slices
DropFirst(s, k) ==
    IF k >= Len(s) THEN <<>> ELSE SubSeq(s, k + 1, Len(s))

-----------------------------------------------------------------------------
(* The regular expressions Augeas matches labels and values against        *)
(* (regexp(...) with =~ is a match of the whole string).  The syntax       *)
(* covered is what fnmatch_to_re and case_i emit: a literal character, an  *)
(* escaped character, '.', a character class [..], and a postfix '*'.      *)

\* the length of the first atom of a non-empty regex
AtomLen(re) ==
    IF re[1] = "\\" /\ Len(re) >= 2 THEN 2
    ELSE IF re[1] = "[" /\ \E j \in 2..Len(re) : re[j] = "]"
         THEN CHOOSE j \in 2..Len(re) :
                  /\ re[j] = "]"
                  /\ \A k \in 2..(j - 1) : re[k] # "]"
         ELSE 1

\* whether the first atom of a non-empty regex accepts character c
AtomMatches(re, c) ==
    IF re[1] = "\\" /\ Len(re) >= 2 THEN c = re[2]
    ELSE IF re[1] = "[" /\ \E j \in 2..Len(re) : re[j] = "]"
         THEN \E k \in 2..(AtomLen(re) - 1) : re[k] = c
         ELSE IF re[1] = "." THEN TRUE
              ELSE c = re[1]

RECURSIVE ReMatch(_, _)
ReMatch(re, s) ==
    IF re = <<>> THEN s = <<>>
    ELSE LET n == AtomLen(re)
             starred == Len(re) > n /\ re[n + 1] = "*"
         IN  IF starred
             THEN \/ ReMatch(DropFirst(re, n + 1), s)
                  \/ /\ s # <<>>
                     /\ AtomMatches(re, s[1])
                     /\ ReMatch(re, Tail(s))
             ELSE /\ s # <<>>
                  /\ AtomMatches(re, s[1])
                  /\ ReMatch(DropFirst(re, n), Tail(s))

-----------------------------------------------------------------------------
(* NginxParser.fnmatch_to_re *)

\* the piece of regex emitted for one letter of the glob
FnmatchLetterNoEscape(letter) ==
    IF letter = "*" THEN <<".", "*">>
    ELSE IF letter = "?" THEN <<".">>
    ELSE <<letter>>

FnmatchLetter(letter) ==
    IF letter = "." THEN <<"\\", ".">>
    ELSE IF letter = "*" THEN <<".", "*">>
    ELSE IF letter = "?" THEN <<".">>
    ELSE <<letter>>

RECURSIVE fnmatch_to_re(_)
fnmatch_to_re(clean_fn_match) ==
    IF clean_fn_match = <<>> THEN <<>>
    ELSE FnmatchLetter(Head(clean_fn_match))
             \o fnmatch_to_re(Tail(clean_fn_match))

\* fnmatch of a name against a glob, the reference the translation is
\* compared with: '*' any run of characters, '?' exactly one character,
\* every other character itself
RECURSIVE FnMatch(_, _)
FnMatch(g, s) ==
    IF g = <<>> THEN s = <<>>
    ELSE IF Head(g) = "*"
         THEN \/ FnMatch(Tail(g), s)
              \/ s # <<>> /\ FnMatch(g, Tail(s))
         ELSE /\ s # <<>>
              /\ (Head(g) = "?" \/ Head(g) = Head(s))
              /\ FnMatch(Tail(g), Tail(s))

\* the same comparison made case-insensitively
FnMatchNoCase(g, s) == FnMatch(LowerStr(g), LowerStr(s))

SiteConf == <<"s","i","t","e",".","c","o","n","f">>

GlobChars == {"a", "A", ".", "*", "?"}
SubjChars == {"a", "A", "."}

Globs == SeqsUpTo(GlobChars, MaxGlobLen) \cup {SiteConf}

Subjects ==
    SeqsUpTo(SubjChars, MaxSubjLen) \cup
        { SiteConf,
          <<"S","i","t","e",".","C","o","n","f">>,
          <<"S","I","T","E",".","C","O","N","F">>,
          <<"s","i","t","e","x","c","o","n","f">>,
          <<"s","i","t","e",".","c","o","n">>,
          <<"s","i","t","e","-","c","o","n","f">> }

-----------------------------------------------------------------------------
(* Paths *)

Slash == <<"/">>

\* self.root: the server root, absolute and without a trailing slash
Root == <<"/", "r">>

NginxConfName == <<"n","g","i","n","x",".","c","o","n","f">>
SitesAvailable == <<"s","i","t","e","s","-","a","v","a","i","l","a","b","l","e">>
DotConf == <<".","c","o","n","f">>
StarConf == <<"*">> \o DotConf
ConfSlash == <<"c","o","n","f","/">>

\* os.path.join(a, b) for a relative b
PathJoin(a, b) == a \o Slash \o b

SitesDir == PathJoin(Root, SitesAvailable)

\* self.loc["root"]: os.path.join(self.root, 'nginx.conf')
F_nginx == PathJoin(Root, NginxConfName)
F_a == PathJoin(SitesDir, <<"a">> \o DotConf)
F_b == PathJoin(SitesDir, <<"b">> \o DotConf)
F_c == PathJoin(SitesDir, <<"c">> \o DotConf)

\* the files of the model, named by their last segment; PathOf gives the
\* path glob.glob returns and self.parsed is keyed by
Files == {"nginx.conf", "a.conf", "b.conf", "c.conf"}
SiteFiles == {"a.conf", "b.conf", "c.conf"}

PathOf(f) ==
    IF f = "nginx.conf" THEN F_nginx
    ELSE IF f = "a.conf" THEN F_a
    ELSE IF f = "b.conf" THEN F_b
    ELSE F_c

\* str.split("/")
RECURSIVE SplitSlash(_)
SplitSlash(s) ==
    IF \A i \in DOMAIN s : s[i] # "/" THEN <<s>>
    ELSE LET k == CHOOSE i \in DOMAIN s :
                      s[i] = "/" /\ \A j \in 1..(i - 1) : s[j] # "/"
         IN  <<SubSeq(s, 1, k - 1)>> \o SplitSlash(DropFirst(s, k))

\* "/".join(parts)
RECURSIVE JoinSlash(_)
JoinSlash(parts) ==
    IF parts = <<>> THEN <<>>
    ELSE IF Len(parts) = 1 THEN parts[1]
    ELSE parts[1] \o Slash \o JoinSlash(Tail(parts))

HasMagic(s) == \E i \in DOMAIN s : s[i] = "*" \/ s[i] = "?"

\* get_aug_path: "/files%s" % file_path
get_aug_path(file_path) == <<"/","f","i","l","e","s">> \o file_path

\* strip_dir: the directory of a file path, with its trailing slash
strip_dir(path) ==
    IF \E i \in 2..Len(path) : path[i] = "/"
    THEN LET index == CHOOSE i \in 2..Len(path) :
                          path[i] = "/" /\ \A j \in (i + 1)..Len(path) : path[j] # "/"
         IN  SubSeq(path, 1, index)
    ELSE <<>>

-----------------------------------------------------------------------------
(* NginxParser._get_include_path *)

\* lines 194-199: standardize the include argument
StandardizeArg(cur_dir, arg) ==
    IF ~StartsWith(arg, Slash) THEN cur_dir \o arg
    ELSE IF StartsWith(arg, ConfSlash) THEN Root \o DropFirst(arg, 4)
    ELSE arg

LabelRegexOpen ==
    <<"*"," ","[","l","a","b","e","l","(",")","=","~",
      "r","e","g","e","x","p","(","'">>
LabelRegexClose == <<"'", ")", "]">>

\* lines 208-218: each segment holding * or ? becomes an Augeas label regex
RegexSegments(arg) ==
    IF HasMagic(arg)
    THEN LET split_arg == SplitSlash(arg)
         IN  JoinSlash([idx \in DOMAIN split_arg |->
                 IF HasMagic(split_arg[idx])
                 THEN LabelRegexOpen \o fnmatch_to_re(split_arg[idx])
                          \o LabelRegexClose
                 ELSE split_arg[idx]])
    ELSE arg

\* lines 220-223: the returned Augeas path
IncludeAugPath(arg) ==
    LET a == RegexSegments(arg)
    IN  IF a # <<>> /\ a[Len(a)] = "/"
        THEN get_aug_path(SubSeq(a, 1, Len(a) - 1))
        ELSE get_aug_path(a)

\* the arguments the NodeStore operations are called with
ParseArgs == {F_nginx, F_a, PathJoin(SitesDir, StarConf)}

CurDirs == {Root \o Slash, SitesDir \o Slash}

IncludeArgs ==
    { <<"a">> \o DotConf,
      ConfSlash \o <<"a">> \o DotConf,
      SitesAvailable \o Slash \o StarConf,
      F_b }

-----------------------------------------------------------------------------
(* The disk, and NginxParser._parse_file *)

\* the value read for a path that self.parsed has no key for
NotRegistered == [parsed_from |-> 0]

\* what load(open(f)) does for a file in each condition
FileStates ==
    { [status |-> "ok", content |-> 1],
      [status |-> "ok", content |-> 2],
      [status |-> "unreadable", content |-> 0],
      [status |-> "garbled", content |-> 0],
      [status |-> "none", content |-> 0] }

\* nginxparser.load(open(f)): the tree of the file's content, or the
\* exception raised
Load(file) ==
    IF file.status = "ok" THEN [exc |-> "none", tree |-> [parsed_from |-> file.content]]
    ELSE IF file.status = "garbled" THEN [exc |-> "ParseException", tree |-> NotRegistered]
    ELSE [exc |-> "IOError", tree |-> NotRegistered]

\* the except clauses of _parse_file
CaughtOnlyIOError(exc) == exc = "IOError"

Caught(exc) == exc \in {"IOError", "ParseException"}

\* glob.glob(filepath): the existing paths whose segments fnmatch the
\* pattern's (a directory is matched too, and open() of it is an IOError
\* that registers nothing, so only files are listed)
PathFnMatch(pattern, path) ==
    LET ps == SplitSlash(pattern)
        fsegs == SplitSlash(path)
    IN  /\ Len(ps) = Len(fsegs)
        /\ \A i \in DOMAIN ps : FnMatch(ps[i], fsegs[i])

\* the paths of the model each pattern of the model matches
GlobPatterns ==
    ParseArgs \cup {StandardizeArg(c, a) : c \in CurDirs, a \in IncludeArgs}

GlobTable ==
    [pattern \in GlobPatterns |-> {f \in Files : PathFnMatch(pattern, PathOf(f))}]

GlobGlob(disk, filepath) ==
    IF filepath \in DOMAIN GlobTable
    THEN {f \in GlobTable[filepath] : disk[f].status # "none"}
    ELSE {f \in DOMAIN disk :
             disk[f].status # "none" /\ PathFnMatch(filepath, PathOf(f))}

\* the orders glob.glob may list a set of files in
Orders(S) ==
    {o \in [1..Cardinality(S) -> S] : \A i, j \in DOMAIN o : i # j => o[i] # o[j]}

\* the for loop of _parse_file over files, from registry reg
RECURSIVE ParseLoop(_, _, _)
ParseLoop(reg, disk, files) ==
    IF files = <<>> THEN [parsed |-> reg, raised |-> "none"]
    ELSE LET f == Head(files)
             r == Load(disk[f])
         IN  IF r.exc = "none"
             THEN ParseLoop([reg EXCEPT ![f] = r.tree], disk, Tail(files))
             ELSE IF Caught(r.exc)
                  THEN ParseLoop(reg, disk, Tail(files))
                  ELSE [parsed |-> reg, raised |-> r.exc]

\* _parse_file(filepath) with glob.glob listing the matches in order
ParseFileIn(reg, disk, order) == ParseLoop(reg, disk, order)

-----------------------------------------------------------------------------
(* The NodeStore operations as steps *)

\* NginxParser.__init__: the root file must exist (_find_config_root), then
\* _parse_file(root file) and _parse_file(root/sites-available/*.conf)
Constructed(disk) ==
    LET empty == [f \in Files |-> NotRegistered]
        first == CHOOSE o \in Orders(GlobGlob(disk, F_nginx)) : TRUE
        reg1 == ParseFileIn(empty, disk, first).parsed
        second == CHOOSE o \in Orders(GlobGlob(disk, PathJoin(SitesDir, StarConf))) : TRUE
    IN  ParseFileIn(reg1, disk, second).parsed

InitParse ==
    /\ fs \in [Files -> {s \in FileStates : s.content # 2}]
    /\ fs["nginx.conf"].status = "ok"
    /\ parsed = Constructed(fs)
    /\ plast = [op |-> "init"]
    /\ fsEdits = 0

\* the variables of the NodeStore when it is not the part under study
InitParseIdle ==
    /\ fs = [f \in Files |-> [status |-> "ok", content |-> 1]]
    /\ parsed = [f \in Files |-> NotRegistered]
    /\ plast = [op |-> "init"]
    /\ fsEdits = 0

\* _parse_file(filepath)
ParseFile ==
    \E filepath \in ParseArgs :
        LET files == GlobGlob(fs, filepath)
        IN  \E order \in Orders(files) :
            LET r == ParseFileIn(parsed, fs, order)
            IN  /\ parsed' = r.parsed
                /\ plast' = [op |-> "parse_file", matches |-> files,
                             disk |-> fs, before |-> parsed,
                             raised |-> r.raised]
                /\ UNCHANGED <<fs, fsEdits>>

\* _get_include_path(cur_dir, arg)
GetIncludePath ==
    \E cur_dir \in CurDirs, arg \in IncludeArgs :
        LET std == StandardizeArg(cur_dir, arg)
            files == GlobGlob(fs, std)
        IN  \E order \in Orders(files) :
            LET r == ParseFileIn(parsed, fs, order)
            IN  /\ parsed' = r.parsed
                /\ plast' = [op |-> "get_include_path", cur_dir |-> cur_dir,
                             arg |-> arg, resolved |-> std,
                             matches |-> files, disk |-> fs,
                             before |-> parsed, raised |-> r.raised]
                /\ UNCHANGED <<fs, fsEdits>>

\* the disk changes under the parser: a file is edited, removed, made
\* unreadable or garbled
FsChange ==
    /\ fsEdits < MaxFsEdits
    /\ \E f \in SiteFiles, s \in FileStates :
        /\ s # fs[f]
        /\ fs' = [fs EXCEPT ![f] = s]
    /\ fsEdits' = fsEdits + 1
    /\ UNCHANGED <<parsed, plast>>

-----------------------------------------------------------------------------
(* The Augeas tree (self.aug).  A node has a label, a value and an ordered  *)
(* list of children.  The paths the code builds are resolved as Augeas     *)
(* does: label[i] is the i-th sibling with that label, label alone every   *)
(* sibling with it, last() the number of them; aug.set creates the nodes   *)
(* of a path that matches nothing (as the last children of the deepest     *)
(* node that exists) and fails when the path matches several nodes.        *)

Node(l, v, ks) == [label |-> l, value |-> v, kids |-> ks]

Arg(v) == Node("arg", v, <<>>)
Directive(name, v) == Node("directive", name, <<Arg(v)>>)
IfModule(mod, ds) == Node("IfModule", "", <<Arg(mod)>> \o ds)

NoTree == [exists |-> FALSE, kids |-> <<>>]

\* the positions, in order, of the children labelled l
Labelled(kids, l) ==
    LET Is(i) == kids[i].label = l
    IN  SelectSeq([i \in 1..Len(kids) |-> i], Is)

\* [self::arg='mod'] on the children of a node
HasArg(node, mod) ==
    \E i \in 1..Len(node.kids) :
        node.kids[i].label = "arg" /\ node.kids[i].value = mod

\* aug.match("%s/IfModule/*[self::arg='%s']"): the positions of the
\* IfModule children whose arg is mod, in tree order
MatchIfMods(kids, mod) ==
    LET Is(i) == kids[i].label = "IfModule" /\ HasArg(kids[i], mod)
    IN  SelectSeq([i \in 1..Len(kids) |-> i], Is)

\* the index Augeas prints for the child at position p: none (0) when it
\* is the only sibling with its label, its rank among them otherwise
PathIndex(kids, p) ==
    LET same == Labelled(kids, kids[p].label)
    IN  IF Len(same) = 1 THEN 0
        ELSE CHOOSE r \in 1..Len(same) : same[r] = p

\* the positions a step "label" (index 0) or "label[index]" selects
Select(kids, l, index) ==
    LET same == Labelled(kids, l)
    IN  IF index = 0 THEN same
        ELSE IF index <= Len(same) THEN <<same[index]>>
        ELSE <<>>

\* aug.set(".../label[k]", value) on the children of a node, k the first or
\* the last sibling: the value is set, or the node is created
SetChild(kids, l, which, value) ==
    LET same == Labelled(kids, l)
    IN  IF same = <<>> THEN Append(kids, Node(l, value, <<>>))
        ELSE LET p == IF which = "first" THEN same[1] ELSE same[Len(same)]
             IN  [kids EXCEPT ![p].value = value]

\* aug.set(".../label[k]/arg", value): the arg of the first or last sibling
SetChildArg(kids, l, which, value) ==
    LET same == Labelled(kids, l)
        p == IF which = "first" THEN same[1] ELSE same[Len(same)]
    IN  [kids EXCEPT ![p].kids = SetChild(kids[p].kids, "arg", "first", value)]

\* aug.insert(block + "arg", "directive", False): a new directive node
\* right after the block's arg
NoInsert(kids) == kids

InsertAfterArg(kids) ==
    LET a == Labelled(kids, "arg")[1]
    IN  SubSeq(kids, 1, a) \o <<Node("directive", "", <<>>)>>
            \o SubSeq(kids, a + 1, Len(kids))

\* an Address of a guard block: the path scope/IfModule[index]/
Address(scope, index) == [scope |-> scope, index |-> index]

-----------------------------------------------------------------------------
(* NginxParser._get_ifmod *)

\* _get_ifmod without its test that no block matched
GetIfmodAlwaysCreate(tree, aug_conf_path, mod) ==
    LET kids == tree[aug_conf_path].kids
        made == Append(kids, Node("IfModule", "", <<>>))
        set == SetChildArg(made, "IfModule", "last", mod)
        again == MatchIfMods(set, mod)
    IN  [tree |-> [tree EXCEPT ![aug_conf_path] =
                       [exists |-> TRUE, kids |-> set]],
         ret |-> Address(aug_conf_path, PathIndex(set, again[1])),
         error |-> "none"]

_get_ifmod(tree, aug_conf_path, mod) ==
    LET kids == tree[aug_conf_path].kids
        if_mods == MatchIfMods(kids, mod)
    IN  IF Len(if_mods) = 0
        THEN LET made == Append(kids, Node("IfModule", "", <<>>))
                 set == SetChildArg(made, "IfModule", "last", mod)
                 again == MatchIfMods(set, mod)
             IN  [tree |-> [tree EXCEPT ![aug_conf_path] =
                                [exists |-> TRUE, kids |-> set]],
                  ret |-> Address(aug_conf_path, PathIndex(set, again[1])),
                  error |-> "none"]
        ELSE [tree |-> tree,
              ret |-> Address(aug_conf_path, PathIndex(kids, if_mods[1])),
              error |-> "none"]

-----------------------------------------------------------------------------
(* NginxParser.add_dir_to_ifmodssl *)

ModSsl == "mod_ssl.c"

add_dir_to_ifmodssl(tree, aug_conf_path, directive, val) ==
    LET got == _get_ifmod(tree, aug_conf_path, ModSsl)
        kids == got.tree[aug_conf_path].kids
        found == Select(kids, "IfModule", got.ret.index)
    IN  IF Len(found) # 1
        THEN [tree |-> got.tree, ret |-> "None", error |-> "ValueError"]
        ELSE LET p == found[1]
                 inserted == InsertAfterArg(kids[p].kids)
                 named == SetChild(inserted, "directive", "first", directive)
                 valued == SetChildArg(named, "directive", "first", val)
             IN  [tree |-> [got.tree EXCEPT ![aug_conf_path].kids =
                                [kids EXCEPT ![p].kids = valued]],
                  ret |-> "None", error |-> "none"]

-----------------------------------------------------------------------------
(* NginxParser.add_dir *)

\* the arg children add_dir gives the new directive: one per element of a
\* list, one for a scalar
ArgNodes(arg) == [i \in 1..Len(arg) |-> Arg(arg[i])]

\* add_dir on the children of the node the path names
AppendDirective(kids, directive, arg) ==
    Append(kids, Node("directive", directive, ArgNodes(arg)))

\* a target is a path: a scope (block = -1), or the guard block
\* scope/IfModule (block = 0) or scope/IfModule[block]
Target(scope, block) == [scope |-> scope, block |-> block]

add_dir(tree, target, directive, arg) ==
    LET kids == tree[target.scope].kids
    IN  IF target.block = -1
        THEN [tree |-> [tree EXCEPT ![target.scope] =
                  [exists |-> TRUE,
                   kids |-> AppendDirective(kids, directive, arg)]],
              ret |-> "None", error |-> "none"]
        ELSE LET found == Select(kids, "IfModule", target.block)
             IN  IF Len(found) > 1
                 THEN [tree |-> tree, ret |-> "None", error |-> "ValueError"]
                 ELSE IF Len(found) = 1
                 THEN [tree |-> [tree EXCEPT ![target.scope].kids =
                           [kids EXCEPT ![found[1]].kids =
                               AppendDirective(kids[found[1]].kids, directive, arg)]],
                       ret |-> "None", error |-> "none"]
                 ELSE [tree |-> [tree EXCEPT ![target.scope] =
                           [exists |-> TRUE,
                            kids |-> Append(kids, Node("IfModule", "",
                                AppendDirective(<<>>, directive, arg)))]],
                       ret |-> "None", error |-> "none"]

\* whether a path names a node of the tree
Resolves(tree, target) ==
    /\ tree[target.scope].exists
    /\ target.block # -1 =>
           Len(Select(tree[target.scope].kids, "IfModule", target.block)) = 1

-----------------------------------------------------------------------------
(* The mutation calls as steps *)

ConfScope == "/files/r/nginx.conf"
MissingScope == "/files/r/missing.conf"
Scopes == {ConfScope, MissingScope}

Mods == {ModSsl, "mod_x.c"}

InitKids ==
    { <<>>,
      <<Directive("Listen", "80")>>,
      <<IfModule(ModSsl, <<Directive("Listen", "443")>>)>>,
      <<IfModule("mod_x.c", <<>>), IfModule(ModSsl, <<>>)>>,
      <<IfModule(ModSsl, <<>>), Directive("Listen", "80"),
        IfModule(ModSsl, <<Directive("Listen", "443")>>)>> }

InitMut ==
    /\ \E ks \in InitKids :
           aug = [s \in Scopes |->
                     IF s = ConfScope THEN [exists |-> TRUE, kids |-> ks]
                     ELSE NoTree]
    /\ log = <<>>

InitMutIdle ==
    /\ aug = [s \in Scopes |-> NoTree]
    /\ log = <<>>

Entry(op, target, mod, directive, arg, r) ==
    [op |-> op, target |-> target, mod |-> mod, directive |-> directive,
     arg |-> arg, ret |-> r.ret, error |-> r.error, pre |-> aug]

GetIfmod ==
    /\ Len(log) < MaxOps
    /\ \E scope \in Scopes, mod \in Mods :
        LET r == _get_ifmod(aug, scope, mod)
        IN  /\ aug' = r.tree
            /\ log' = Append(log,
                   Entry("get_ifmod", Target(scope, -1), mod, "", <<>>, r))

DirectiveArgs == {<<"Listen", "443">>, <<"Listen", "8443">>}

AddDirToIfmodssl ==
    /\ Len(log) < MaxOps
    /\ \E scope \in Scopes, da \in DirectiveArgs :
        LET r == add_dir_to_ifmodssl(aug, scope, da[1], da[2])
        IN  /\ aug' = r.tree
            /\ log' = Append(log,
                   Entry("add_dir_to_ifmodssl", Target(scope, -1), ModSsl,
                         da[1], <<da[2]>>, r))

AddDirTargets ==
    {Target(s, -1) : s \in Scopes} \cup {Target(ConfScope, b) : b \in 0..2}

AddDirArgs == {<<"443">>, <<"a", "b">>}

AddDir ==
    /\ Len(log) < MaxOps
    /\ \E target \in AddDirTargets, arg \in AddDirArgs :
        LET r == add_dir(aug, target, "Listen", arg)
        IN  /\ aug' = r.tree
            /\ log' = Append(log, Entry("add_dir", target, "", "Listen", arg, r))

-----------------------------------------------------------------------------
(* The apacheconfig node classes.  An object is its position in nodes;     *)
(* ancestor is the position of the object passed as ancestor (0: none).    *)

\* ApacheParserNode.__init__ and the subclasses': the fields of a new object
\* (dirty is not passed by any method of the module and defaults to False)
NewNode(kind, ancestor) ==
    [kind |-> kind, ancestor |-> ancestor, dirty |-> FALSE, children |-> <<>>]

Blocks == {n \in 1..Len(nodes) : nodes[n].kind = "block"}

\* add_child_block, add_child_directive, add_child_comment: a new object
\* with ancestor=self, appended to self.children
AddChild(self, kind) ==
    LET new == Len(nodes) + 1
    IN  Append([nodes EXCEPT ![self].children = Append(@, new)],
               NewNode(kind, self))

\* find_blocks, find_directives, find_comments, find_ancestors: a list of
\* one new object with ancestor=self
FindNew(self, kind) == Append(nodes, NewNode(kind, self))

InitNode ==
    /\ \E d \in BOOLEAN :
           nodes = <<[kind |-> "block", ancestor |-> 0, dirty |-> d,
                      children |-> <<>>]>>
    /\ nlast = [op |-> "init"]

InitNodeIdle ==
    /\ nodes = <<>>
    /\ nlast = [op |-> "init"]

NodeCall(op, self, ret) ==
    [op |-> op, self |-> self, ret |-> ret,
     children_before |-> nodes[self].children,
     dirty_before |-> nodes[self].dirty]

add_child_block ==
    /\ Len(nodes) < MaxNodes
    /\ \E self \in Blocks :
        /\ nodes' = AddChild(self, "block")
        /\ nlast' = NodeCall("add_child_block", self, <<Len(nodes) + 1>>)

add_child_directive ==
    /\ Len(nodes) < MaxNodes
    /\ \E self \in Blocks :
        /\ nodes' = AddChild(self, "directive")
        /\ nlast' = NodeCall("add_child_directive", self, <<Len(nodes) + 1>>)

add_child_comment ==
    /\ Len(nodes) < MaxNodes
    /\ \E self \in Blocks :
        /\ nodes' = AddChild(self, "comment")
        /\ nlast' = NodeCall("add_child_comment", self, <<Len(nodes) + 1>>)

find_blocks ==
    /\ Len(nodes) < MaxNodes
    /\ \E self \in Blocks :
        /\ nodes' = FindNew(self, "block")
        /\ nlast' = NodeCall("find_blocks", self, <<Len(nodes) + 1>>)

find_directives ==
    /\ Len(nodes) < MaxNodes
    /\ \E self \in Blocks :
        /\ nodes' = FindNew(self, "directive")
        /\ nlast' = NodeCall("find_directives", self, <<Len(nodes) + 1>>)

find_comments ==
    /\ Len(nodes) < MaxNodes
    /\ \E self \in Blocks :
        /\ nodes' = FindNew(self, "comment")
        /\ nlast' = NodeCall("find_comments", self, <<Len(nodes) + 1>>)

find_ancestors ==
    /\ Len(nodes) < MaxNodes
    /\ \E self \in 1..Len(nodes) :
        /\ nodes' = FindNew(self, "block")
        /\ nlast' = NodeCall("find_ancestors", self, <<Len(nodes) + 1>>)

\* delete_child returns at once
delete_child ==
    \E self \in Blocks, child \in 1..Len(nodes) :
        /\ nodes' = nodes
        /\ nlast' = [NodeCall("delete_child", self, <<>>) EXCEPT !.ret = <<child>>]

-----------------------------------------------------------------------------
(* case_i *)

IsAlnum(c) == IsAlpha(c) \/ c \in Digits

\* re.escape: a backslash before every character that is not alphanumeric
RECURSIVE re_escape(_)
re_escape(string) ==
    IF string = <<>> THEN <<>>
    ELSE (IF IsAlnum(Head(string)) THEN <<Head(string)>>
          ELSE <<"\\", Head(string)>>) \o re_escape(Tail(string))

\* the class case_i writes for one character of the escaped string
CaseClassUpperOnly(c) == IF IsAlpha(c) THEN <<"[", Upper(c), "]">> ELSE <<c>>

CaseClass(c) ==
    IF IsAlpha(c) THEN <<"[", Upper(c), Lower(c), "]">> ELSE <<c>>

RECURSIVE CaseClasses(_)
CaseClasses(escaped) ==
    IF escaped = <<>> THEN <<>>
    ELSE CaseClass(Head(escaped)) \o CaseClasses(Tail(escaped))

case_i(string) == CaseClasses(re_escape(string))

-----------------------------------------------------------------------------
(* aug.match as find_dir uses it.  Under /files every directory and file   *)
(* is a node labelled with its name; the files are listed in tree order.   *)

FileOrder == <<"nginx.conf", "a.conf", "b.conf", "c.conf">>

RECURSIVE Flatten(_)
Flatten(seqs) ==
    IF seqs = <<>> THEN <<>> ELSE Head(seqs) \o Flatten(Tail(seqs))

\* one step of a path against a label: a name, or
\* * [label()=~regexp('...')]
SegMatch(seg, label) ==
    IF StartsWith(seg, LabelRegexOpen)
    THEN ReMatch(SubSeq(seg, Len(LabelRegexOpen) + 1,
                        Len(seg) - Len(LabelRegexClose)), label)
    ELSE seg = label

\* whether the file lies at or under the nodes the path start selects
InStart(start, f) ==
    LET ss == SplitSlash(start)
        fsegs == SplitSlash(get_aug_path(PathOf(f)))
    IN  /\ Len(ss) <= Len(fsegs)
        /\ \A i \in 1..Len(ss) : SegMatch(ss[i], fsegs[i])

FilesIn(tree, start) ==
    LET In(f) == tree[f].exists /\ InStart(start, f)
    IN  SelectSeq(FileOrder, In)

\* start//*[self::directive...]: the directive nodes of a file in tree
\* order, each with its place; blocks nest one level in the model
DirectivesUnder(kids) ==
    Flatten([i \in 1..Len(kids) |->
        IF kids[i].label = "directive"
        THEN << [at |-> <<i>>, node |-> kids[i]] >>
        ELSE LET inner == Labelled(kids[i].kids, "directive")
             IN  [j \in 1..Len(inner) |->
                     [at |-> <<i, inner[j]>>, node |-> kids[i].kids[inner[j]]]]])

NoArg == <<"None">>

\* the arg children of one directive node that the match returns
ArgMatches(f, d, arg) ==
    LET args == Labelled(d.node.kids, "arg")
        all == [k \in 1..Len(args) |->
                   [file |-> f, at |-> d.at, arg |-> k,
                    name |-> d.node.value,
                    value |-> d.node.kids[args[k]].value]]
        Wanted(m) == arg = NoArg \/ ReMatch(arg, m.value)
    IN  SelectSeq(all, Wanted)

\* lines 131-137: the args of the directives whose name matches the regex
MatchDirectives(tree, start, directive, arg) ==
    LET files == FilesIn(tree, start)
    IN  Flatten([n \in 1..Len(files) |->
            LET ds == DirectivesUnder(tree[files[n]].kids)
                Named(d) == ReMatch(directive, d.node.value)
                hits == SelectSeq(ds, Named)
            IN  Flatten([h \in 1..Len(hits) |-> ArgMatches(files[n], hits[h], arg)])])

IncludeName == <<"I","n","c","l","u","d","e">>
IncludeOptionalName == IncludeName \o <<"O","p","t","i","o","n","a","l">>

\* incl_regex: (case_i('Include'))|(case_i('IncludeOptional'))
InclRegexFirst == case_i(IncludeName)
InclRegexSecond == case_i(IncludeOptionalName)

IsInclude(name) ==
    \/ ReMatch(InclRegexFirst, name)
    \/ ReMatch(InclRegexSecond, name)

\* lines 139-143: the args of the Include and IncludeOptional directives
MatchIncludes(tree, start) ==
    LET files == FilesIn(tree, start)
    IN  Flatten([n \in 1..Len(files) |->
            LET ds == DirectivesUnder(tree[files[n]].kids)
                Named(d) == IsInclude(d.node.value)
                hits == SelectSeq(ds, Named)
            IN  Flatten([h \in 1..Len(hits) |-> ArgMatches(files[n], hits[h], NoArg)])])

-----------------------------------------------------------------------------
(* NginxParser.find_dir, one step per call entered, include followed and   *)
(* call returned *)

\* the frame of a call find_dir(directive, arg, start) after lines 131-143
\* aug.get(include) for each include matched
Values(includes) == [i \in 1..Len(includes) |-> includes[i].value]

Frame(tree, directive, arg, start) ==
    [start |-> start,
     matches |-> MatchDirectives(tree, start, directive, arg),
     includes |-> Values(MatchIncludes(tree, start))]

\* matches.extend(...) of the caller when a call returns
ExtendFront(matches, returned) == returned \o matches

Extend(matches, returned) == matches \o returned

NoCall == [directive |-> <<>>, arg |-> NoArg, ret |-> <<>>, done |-> FALSE]

InitFindIdle ==
    /\ stack = <<>>
    /\ fdstatus = "idle"
    /\ fdcall = NoCall
    /\ fdprev = NoCall
    /\ fdlast = NoCall

\* names and values of the configurations searched
Listen == <<"L","i","s","t","e","n">>
ListenLower == LowerStr(Listen)
ListenUpper == [i \in DOMAIN Listen |-> Upper(Listen[i])]
ServerName == <<"s","e","r","v","e","r","_","n","a","m","e">>
IncludeLower == LowerStr(IncludeName)
Foo == <<"f","o","o">>
Bar == <<"b","a","r">>
V80 == <<"8","0">>
V81 == <<"8","1">>
V443 == <<"4","4","3">>

Loaded(ks) == [exists |-> TRUE, kids |-> ks]

\* nginx.conf includes sites-available/*.conf; a.conf and b.conf each name
\* a server
ConfigGlob ==
    [f \in Files |->
        IF f = "nginx.conf"
        THEN Loaded(<<Directive(ListenUpper, V443),
                      Directive(IncludeLower, SitesAvailable \o Slash \o StarConf),
                      Directive(ServerName, <<"m">>),
                      Directive(Listen, V80)>>)
        ELSE IF f = "a.conf"
        THEN Loaded(<<Directive(ServerName, Foo), Directive(ListenLower, V81)>>)
        ELSE IF f = "b.conf"
        THEN Loaded(<<Directive(ServerName, Bar)>>)
        ELSE NoTree]

\* includes before and between direct matches, a nested include, a block
ConfigNested ==
    [f \in Files |->
        IF f = "nginx.conf"
        THEN Loaded(<<Directive(IncludeName, F_a),
                      Directive(Listen, V80),
                      Directive(IncludeOptionalName, F_b),
                      Node("server", <<>>, <<Directive(ListenLower, V81)>>)>>)
        ELSE IF f = "a.conf"
        THEN Loaded(<<Directive(Listen, <<"1">>),
                      Directive(IncludeLower, <<"b">> \o DotConf)>>)
        ELSE IF f = "b.conf"
        THEN Loaded(<<Directive(ListenUpper, <<"2">>)>>)
        ELSE NoTree]

\* nginx.conf includes a.conf, which includes nginx.conf
ConfigCycle ==
    [f \in Files |->
        IF f = "nginx.conf"
        THEN Loaded(<<Directive(IncludeName, F_a), Directive(Listen, V80)>>)
        ELSE IF f = "a.conf"
        THEN Loaded(<<Directive(ListenLower, V81), Directive(IncludeName, F_nginx)>>)
        ELSE NoTree]

\* nginx.conf includes itself
ConfigSelf ==
    [f \in Files |->
        IF f = "nginx.conf"
        THEN Loaded(<<Directive(Listen, V80), Directive(IncludeLower, NginxConfName)>>)
        ELSE NoTree]

Configs == {ConfigGlob, ConfigNested, ConfigCycle, ConfigSelf}

InitFind ==
    /\ aug \in Configs
    /\ log = <<>>
    /\ fs = [f \in Files |-> [status |-> "ok", content |-> 1]]
    /\ parsed = Constructed(fs)
    /\ plast = [op |-> "init"]
    /\ fsEdits = 0
    /\ stack = <<>>
    /\ fdstatus = "idle"
    /\ fdcall = NoCall
    /\ fdprev = NoCall
    /\ fdlast = NoCall

FindNames ==
    {Listen, ListenLower, case_i(Listen), case_i(ListenUpper), case_i(ServerName)}

FindArgs == {NoArg, V80}

\* find_dir(directive, arg) is called; start defaults to the root file
FindDirCall ==
    /\ fdstatus # "running"
    /\ \E directive \in FindNames, arg \in FindArgs :
        /\ stack' = <<Frame(aug, directive, arg, get_aug_path(F_nginx))>>
        /\ fdcall' = [NoCall EXCEPT !.directive = directive, !.arg = arg]
    /\ fdstatus' = "running"
    /\ UNCHANGED <<fdprev, fdlast, parsed>>

\* lines 148-152: the next include of the innermost call is resolved by
\* _get_include_path (which parses the file) and searched by a nested call
FindDirInclude ==
    /\ fdstatus = "running"
    /\ stack[Len(stack)].includes # <<>>
    /\ LET top == stack[Len(stack)]
           std == StandardizeArg(strip_dir(DropFirst(top.start, 6)),
                                 Head(top.includes))
       IN  /\ \E order \in Orders(GlobGlob(fs, std)) :
                  parsed' = ParseFileIn(parsed, fs, order).parsed
           /\ IF Len(stack) >= MaxDepth
              THEN /\ stack' = <<>>
                   /\ fdstatus' = "RecursionError"
              ELSE /\ stack' = Append(
                          [stack EXCEPT ![Len(stack)].includes = Tail(@)],
                          Frame(aug, fdcall.directive, fdcall.arg,
                                IncludeAugPath(std)))
                   /\ fdstatus' = fdstatus
    /\ UNCHANGED <<fdcall, fdprev, fdlast>>

\* line 154: the innermost call returns its matches
FindDirReturn ==
    /\ fdstatus = "running"
    /\ stack[Len(stack)].includes = <<>>
    /\ IF Len(stack) = 1
       THEN /\ stack' = <<>>
            /\ fdstatus' = "idle"
            /\ fdprev' = fdlast
            /\ fdlast' = [fdcall EXCEPT !.ret = stack[1].matches, !.done = TRUE]
       ELSE /\ stack' = [SubSeq(stack, 1, Len(stack) - 1)
                            EXCEPT ![Len(stack) - 1].matches =
                                Extend(@, stack[Len(stack)].matches)]
            /\ UNCHANGED <<fdstatus, fdprev, fdlast>>
    /\ UNCHANGED <<fdcall, parsed>>

-----------------------------------------------------------------------------
(* Specifications *)

InitPure ==
    /\ glob \in Globs
    /\ subject \in Subjects
    /\ regex = <<>>
    /\ matched = FALSE
    /\ ppc = "input"

InitPureIdle ==
    /\ glob = <<>>
    /\ subject = <<>>
    /\ regex = <<>>
    /\ matched = FALSE
    /\ ppc = "idle"

\* fnmatch_to_re(glob), and the emitted regex matched against a label as
\* _get_include_path's "* [label()=~regexp('%s')]" has Augeas do
FnmatchToRe ==
    /\ ppc = "input"
    /\ regex' = fnmatch_to_re(glob)
    /\ matched' = ReMatch(fnmatch_to_re(glob), subject)
    /\ ppc' = "done"
    /\ UNCHANGED <<glob, subject>>

NextPure == FnmatchToRe /\ UNCHANGED <<parseVars, mutVars, nodeVars, findVars>>

StartOfPure ==
    InitPure /\ InitParseIdle /\ InitMutIdle /\ InitNodeIdle /\ InitFindIdle

SpecPure == StartOfPure /\ [][NextPure]_vars

NextParse ==
    \/ ParseFile /\ UNCHANGED <<pureVars, mutVars, nodeVars, findVars>>
    \/ GetIncludePath /\ UNCHANGED <<pureVars, mutVars, nodeVars, findVars>>
    \/ FsChange /\ UNCHANGED <<pureVars, mutVars, nodeVars, findVars>>

StartOfParse ==
    InitParse /\ InitPureIdle /\ InitMutIdle /\ InitNodeIdle /\ InitFindIdle

SpecParse == StartOfParse /\ [][NextParse]_vars

Init ==
    InitMut /\ InitPureIdle /\ InitParseIdle /\ InitNodeIdle /\ InitFindIdle

Next ==
    \/ GetIfmod /\ UNCHANGED <<pureVars, parseVars, nodeVars, findVars>>
    \/ AddDirToIfmodssl /\ UNCHANGED <<pureVars, parseVars, nodeVars, findVars>>
    \/ AddDir /\ UNCHANGED <<pureVars, parseVars, nodeVars, findVars>>

Spec == Init /\ [][Next]_vars

NextNode ==
    \/ add_child_block /\ UNCHANGED <<pureVars, parseVars, mutVars, findVars>>
    \/ add_child_directive /\ UNCHANGED <<pureVars, parseVars, mutVars, findVars>>
    \/ add_child_comment /\ UNCHANGED <<pureVars, parseVars, mutVars, findVars>>
    \/ find_blocks /\ UNCHANGED <<pureVars, parseVars, mutVars, findVars>>
    \/ find_directives /\ UNCHANGED <<pureVars, parseVars, mutVars, findVars>>
    \/ find_comments /\ UNCHANGED <<pureVars, parseVars, mutVars, findVars>>
    \/ find_ancestors /\ UNCHANGED <<pureVars, parseVars, mutVars, findVars>>
    \/ delete_child /\ UNCHANGED <<pureVars, parseVars, mutVars, findVars>>

NextFind ==
    \/ FindDirCall /\ UNCHANGED <<pureVars, nodeVars, aug, log, fs, plast, fsEdits>>
    \/ FindDirInclude /\ UNCHANGED <<pureVars, nodeVars, aug, log, fs, plast, fsEdits>>
    \/ FindDirReturn /\ UNCHANGED <<pureVars, nodeVars, aug, log, fs, plast, fsEdits>>

StartOfFind ==
    InitFind /\ InitPureIdle /\ InitNodeIdle

SpecFind == StartOfFind /\ [][NextFind]_vars

StartOfNode ==
    InitNode /\ InitPureIdle /\ InitParseIdle /\ InitMutIdle /\ InitFindIdle

SpecNode == StartOfNode /\ [][NextNode]_vars

-----------------------------------------------------------------------------
(* What the claims about the mutation calls read from the log *)

\* the tree after the i-th call
Post(i) == IF i = Len(log) THEN aug ELSE log[i + 1].pre

\* the guard blocks for mod among the children of a scope
Guards(tree, scope, mod) == MatchIfMods(tree[scope].kids, mod)

ChildCount(tree, scope) == Len(tree[scope].kids)

\* the i-th and the next call are _get_ifmod with the same scope and module,
\* on a scope that exists
TwiceInARow(i) ==
    /\ i \in 1..(Len(log) - 1)
    /\ log[i].op = "get_ifmod" /\ log[i + 1].op = "get_ifmod"
    /\ log[i].target = log[i + 1].target
    /\ log[i].mod = log[i + 1].mod
    /\ log[i].pre[log[i].target.scope].exists

(* C1 (as amended): _get_ifmod called twice in a row with the same module  *)
(* on the same scope returns the same address both times; afterwards the   *)
(* scope holds one guard block for the module if it held none or one       *)
(* before, and as many as it held before otherwise (the call never adds to *)
(* or removes from blocks that exist); the scope's child count grows by    *)
(* one in total if no such block existed before the first call and by zero *)
(* if one or more existed.                                                 *)
C1_FindOrCreateIdempotent ==
    \A i \in 1..(Len(log) - 1) :
        TwiceInARow(i) =>
            LET scope == log[i].target.scope
                before == Len(Guards(log[i].pre, scope, log[i].mod))
                after == Len(Guards(Post(i + 1), scope, log[i].mod))
            IN  /\ log[i].ret = log[i + 1].ret
                /\ after = (IF before = 0 THEN 1 ELSE before)
                /\ ChildCount(Post(i + 1), scope) =
                       ChildCount(log[i].pre, scope)
                           + (IF before = 0 THEN 1 ELSE 0)

\* two calls in a row on a scope without the guard: one block was created
C1_Witness ==
    /\ Len(log) = 2
    /\ TwiceInARow(1)
    /\ Guards(log[1].pre, ConfScope, ModSsl) = <<>>
    /\ log[1].target.scope = ConfScope /\ log[1].mod = ModSsl
    /\ Len(Guards(aug, ConfScope, ModSsl)) = 1
    /\ ChildCount(aug, ConfScope) = ChildCount(log[1].pre, ConfScope) + 1
    /\ log[1].ret = log[2].ret

(* C1 as claimed: after the two calls the number of guard blocks in the    *)
(* scope whose argument is the module is exactly one.                      *)
C1_AsClaimed ==
    \A i \in 1..(Len(log) - 1) :
        TwiceInARow(i) =>
            /\ log[i].ret = log[i + 1].ret
            /\ Len(Guards(Post(i + 1), log[i].target.scope, log[i].mod)) = 1

-----------------------------------------------------------------------------
\* the calls add_dir_to_ifmodssl(scope, d, v) made so far, as <<d, <<v>>>>
RECURSIVE CallsOn(_, _)
CallsOn(entries, scope) ==
    IF entries = <<>> THEN <<>>
    ELSE (IF /\ Head(entries).op = "add_dir_to_ifmodssl"
             /\ Head(entries).target.scope = scope
          THEN <<<<Head(entries).directive, Head(entries).arg>>>>
          ELSE <<>>) \o CallsOn(Tail(entries), scope)

\* the directives of a block, as <<name, <<values>>>>
DirectivesOf(node) ==
    LET ds == Labelled(node.kids, "directive")
    IN  [i \in 1..Len(ds) |->
            <<node.kids[ds[i]].value,
              [j \in 1..Len(node.kids[ds[i]].kids) |->
                  node.kids[ds[i]].kids[j].value]>>]

Occurrences(seq, x) == Cardinality({i \in 1..Len(seq) : seq[i] = x})

SameElements(a, b) ==
    /\ Len(a) = Len(b)
    /\ \A i \in 1..Len(a) : Occurrences(a, a[i]) = Occurrences(b, a[i])

\* the scope had no guard block for mod_ssl.c at the start, and no call
\* other than add_dir_to_ifmodssl has written into a guard block of it
OnlyConditionalAdds(scope) ==
    /\ log # <<>>
    /\ log[1].pre[scope].exists
    /\ Guards(log[1].pre, scope, ModSsl) = <<>>
    /\ \A i \in 1..Len(log) :
           log[i].op = "add_dir" /\ log[i].target.scope = scope
               => log[i].target.block = -1

(* C2: from a scope with no guard block for mod_ssl.c, k >= 1 calls        *)
(* add_dir_to_ifmodssl(scope, d_i, v_i) leave the scope with exactly one   *)
(* guard block for mod_ssl.c, and that block holds exactly k directives,   *)
(* one per call with the call's name and value (none overwritten or lost). *)
C2_OneGuardAllDirectives ==
    \A scope \in Scopes :
        OnlyConditionalAdds(scope) /\ CallsOn(log, scope) # <<>> =>
            LET guards == Guards(aug, scope, ModSsl)
            IN  /\ Len(guards) = 1
                /\ SameElements(DirectivesOf(aug[scope].kids[guards[1]]),
                                CallsOn(log, scope))

\* Listen 443 then Listen 8443: one guard block holding both directives
C2_Witness ==
    /\ OnlyConditionalAdds(ConfScope)
    /\ CallsOn(log, ConfScope) = << <<"Listen", <<"443">>>>, <<"Listen", <<"8443">>>> >>
    /\ Len(Guards(aug, ConfScope, ModSsl)) = 1
    /\ Len(DirectivesOf(aug[ConfScope].kids[Guards(aug, ConfScope, ModSsl)[1]])) = 2

-----------------------------------------------------------------------------
\* the tree _get_ifmod(scope, mod_ssl.c) followed by add_dir on the block
\* it returned leaves, from the tree before the i-th call
EnsureThenAppend(i) ==
    LET scope == log[i].target.scope
        got == _get_ifmod(log[i].pre, scope, ModSsl)
    IN  add_dir(got.tree, Target(scope, got.ret.index),
                log[i].directive, log[i].arg).tree

(* C11: add_dir_to_ifmodssl(scope, d, v) leaves the tree in the same state *)
(* as _get_ifmod(scope, mod_ssl.c) followed by add_dir(returned block, d,  *)
(* v): the new directive is the last child of the guard block, after every *)
(* directive the block already held, so successive calls leave the guard   *)
(* block's directives in call order.                                       *)
C11_SameAsEnsureThenAppend ==
    /\ \A i \in 1..Len(log) :
           /\ log[i].op = "add_dir_to_ifmodssl"
           /\ log[i].pre[log[i].target.scope].exists
           => Post(i) = EnsureThenAppend(i)
    /\ \A scope \in Scopes :
           OnlyConditionalAdds(scope) /\ CallsOn(log, scope) # <<>> =>
               LET guards == Guards(aug, scope, ModSsl)
               IN  DirectivesOf(aug[scope].kids[guards[1]]) = CallsOn(log, scope)

-----------------------------------------------------------------------------
ListenVariants == {Listen, ListenLower, ListenUpper}

RootStart == get_aug_path(F_nginx)

\* the directives of the root file whose name is n in any case
StoredVariants(n) ==
    LET ds == DirectivesUnder(aug["nginx.conf"].kids)
        Same(d) == LowerStr(d.node.value) = LowerStr(n)
    IN  SelectSeq(ds, Same)

(* C4 (as amended): find_dir called with case_i(n) returns the same        *)
(* matches as find_dir called with case_i of any case variant of n, and a  *)
(* directive stored in the tree under any case variant of n is matched;    *)
(* the name must be passed through case_i, find_dir itself compares the    *)
(* name it is given case-sensitively.                                      *)
C4_CaseInsensitiveThroughCaseI ==
    \A n \in ListenVariants :
        /\ \A m \in ListenVariants :
               /\ fdprev.done /\ fdlast.done
               /\ fdprev.directive = case_i(n)
               /\ fdlast.directive = case_i(m)
               /\ fdprev.arg = fdlast.arg
               => fdprev.ret = fdlast.ret
        /\ fdlast.done /\ fdlast.directive = case_i(n) /\ fdlast.arg = NoArg
               => \A i \in 1..Len(StoredVariants(n)) :
                      \E k \in 1..Len(fdlast.ret) :
                          /\ fdlast.ret[k].file = "nginx.conf"
                          /\ fdlast.ret[k].at = StoredVariants(n)[i].at

\* find_dir(case_i("Listen")) has returned both LISTEN 443 and Listen 80 of
\* the root file, and listen 81 of an included one
C4_Witness ==
    /\ aug = ConfigGlob
    /\ fdprev.done /\ fdlast.done
    /\ fdprev.directive = case_i(ListenUpper)
    /\ fdlast.directive = case_i(ListenLower)
    /\ fdlast.arg = NoArg
    /\ \E i, j, k \in 1..Len(fdlast.ret) :
           /\ fdlast.ret[i].name = ListenUpper
           /\ fdlast.ret[j].name = Listen
           /\ fdlast.ret[k].name = ListenLower

(* C4 as claimed: find_dir called with a name returns the same matches as  *)
(* find_dir called with any case variant of the name.                      *)
C4_AsClaimed ==
    \A n, m \in ListenVariants :
        /\ fdprev.done /\ fdlast.done
        /\ fdprev.directive = n /\ fdlast.directive = m
        /\ fdprev.arg = fdlast.arg
        => fdprev.ret = fdlast.ret

-----------------------------------------------------------------------------
(* C6: the include-following search terminates for every finite set of     *)
(* configuration files, also when files include each other or themselves:  *)
(* a path that is being expanded is not expanded again, so the search      *)
(* never nests without bound.                                              *)
C6_IncludeExpansionTerminates ==
    /\ fdstatus # "RecursionError"
    /\ \A i, j \in 1..Len(stack) : i # j => stack[i].start # stack[j].start

-----------------------------------------------------------------------------
\* the matches of a search from start, by the order the claim gives: those
\* found in start, then those of each include in the order of the includes
RECURSIVE ExpectedMatches(_, _, _, _)
ExpectedMatches(tree, directive, arg, start) ==
    LET incs == Values(MatchIncludes(tree, start))
    IN  MatchDirectives(tree, start, directive, arg) \o
        Flatten([i \in 1..Len(incs) |->
            ExpectedMatches(tree, directive, arg,
                IncludeAugPath(StandardizeArg(
                    strip_dir(DropFirst(start, 6)), incs[i])))])

-----------------------------------------------------------------------------
(* C9: a mutation (add_dir, _get_ifmod, add_dir_to_ifmodssl) requested     *)
(* against a path that does not resolve to a node of the current tree is   *)
(* surfaced to the caller as an error and never carried out: it creates    *)
(* no node and modifies none.                                              *)
C9_InvalidTargetSurfaced ==
    \A i \in 1..Len(log) :
        ~Resolves(log[i].pre, log[i].target) =>
            /\ log[i].error # "none"
            /\ Post(i) = log[i].pre

-----------------------------------------------------------------------------
(* C3: append_directive (add_child_directive) increases the target block's *)
(* child count by exactly one and leaves dirty = true on that block,       *)
(* whatever the block's dirty flag and children were before the call.      *)
C3_AppendCountsAndMarksDirty ==
    nlast.op = "add_child_directive" =>
        /\ Len(nodes[nlast.self].children) = Len(nlast.children_before) + 1
        /\ nodes[nlast.self].dirty = TRUE

-----------------------------------------------------------------------------
(* C12: in every state reachable by the node operations, every non-root    *)
(* node that exists, the nodes the operations returned included, has       *)
(* exactly one ancestor and appears exactly once in that ancestor's        *)
(* children; no operation produces a node whose ancestor is a block that   *)
(* does not list it as a child.                                            *)
C12_AncestorListsChild ==
    \A n \in 1..Len(nodes) :
        nodes[n].ancestor # 0 =>
            /\ nodes[n].ancestor \in 1..Len(nodes)
            /\ nodes[nodes[n].ancestor].kind = "block" =>
                   Occurrences(nodes[nodes[n].ancestor].children, n) = 1

-----------------------------------------------------------------------------
(* C5 (as amended): the translation is format-preserving and               *)
(* case-SENSITIVE: the emitted pattern accepts a string exactly when the   *)
(* string matches the glob as an fnmatch glob compared case-sensitively    *)
(* ('.' only a literal dot, '*' any run, '?' one character, every other    *)
(* character only itself), for globs of letters, '.', '*' and '?'.         *)
C5_TranslationIsFnmatch ==
    ppc = "done" => (matched <=> FnMatch(glob, subject))

\* the translation of "site.conf" has run and accepts "site.conf"
C5_Witness ==
    /\ ppc = "done"
    /\ glob = SiteConf
    /\ subject = SiteConf
    /\ matched

(* C5 as claimed: the emitted pattern accepts a string exactly when the    *)
(* string matches the glob compared case-insensitively.                    *)
C5_AsClaimed ==
    ppc = "done" => (matched <=> FnMatchNoCase(glob, subject))

-----------------------------------------------------------------------------
(* C7 (as amended): after _parse_file(filepath) returns, every matched     *)
(* file whose parse succeeded is registered with the freshly parsed tree,  *)
(* and every matched file whose read or parse failed keeps the             *)
(* registration it had before the call (none, if it was never parsed       *)
(* successfully); no failure raises to the caller or keeps another match   *)
(* from being registered.                                                  *)
C7_ParseAndRegister ==
    plast.op = "parse_file" =>
        /\ plast.raised = "none"
        /\ \A f \in Files :
            IF f \in plast.matches /\ plast.disk[f].status = "ok"
            THEN parsed[f] = [parsed_from |-> plast.disk[f].content]
            ELSE parsed[f] = plast.before[f]

\* the sites-available glob matched three files, one unreadable, and the
\* other two are registered with their current trees
C7_Witness ==
    /\ plast.op = "parse_file"
    /\ plast.matches = {"a.conf", "b.conf", "c.conf"}
    /\ plast.disk["a.conf"].status = "unreadable"
    /\ plast.disk["b.conf"].status = "ok"
    /\ parsed["b.conf"] = [parsed_from |-> plast.disk["b.conf"].content]
    /\ plast.disk["c.conf"].status = "ok"
    /\ parsed["c.conf"] = [parsed_from |-> plast.disk["c.conf"].content]
    /\ parsed["a.conf"] = NotRegistered

(* C7 as claimed: a matched file whose read or parse failed is absent from *)
(* the registered space, also when an earlier parse had registered it.     *)
C7_AsClaimed ==
    plast.op = "parse_file" =>
        /\ plast.raised = "none"
        /\ \A f \in plast.matches :
            IF plast.disk[f].status = "ok"
            THEN parsed[f] = [parsed_from |-> plast.disk[f].content]
            ELSE parsed[f] = NotRegistered

-----------------------------------------------------------------------------
(* C10: _get_include_path uses an absolute argument as it is, rewrites an  *)
(* argument with the conf/ prefix relative to the server root, and         *)
(* resolves any other argument against the including file's directory; an  *)
(* argument starting with conf/ is never resolved against that directory.  *)
C10_ThreeCases ==
    plast.op = "get_include_path" =>
        plast.resolved =
            IF StartsWith(plast.arg, Slash) THEN plast.arg
            ELSE IF StartsWith(plast.arg, ConfSlash)
                 THEN Root \o DropFirst(plast.arg, 4)
                 ELSE plast.cur_dir \o plast.arg

=============================================================================
